---------------------------- MODULE Spec2Model ----------------------------
(***************************************************************************)
(* A model of uftrace's symbol management routines (utils/symbol.c):       *)
(* the ELF static and PLT loaders, the .sym cache reader and writer, the   *)
(* kernel table and the address resolver find_symtabs.                     *)
(*                                                                         *)
(* Machine words are scaled down so that TLC can enumerate them:           *)
(* an address (unsigned long) is AddrBits wide and a symbol size           *)
(* (unsigned) is SizeBits wide.  All address arithmetic wraps at           *)
(* 2^AddrBits, exactly as the C arithmetic wraps at 2^64.                  *)
(***************************************************************************)
EXTENDS Integers, Sequences, FiniteSets, TLC

VARIABLES
    elf,        \* the ELF image of the main executable (input)
    libelf,     \* the ELF image of the mapped module (input)
    files,      \* the file system: cache files and /proc/kallsyms
    symtabs,    \* struct symtabs of the traced process
    ksymtabs,   \* the file-static kernel table set
    snap,       \* what save_symbol_file last wrote from (history)
    last        \* the last call: its arguments, return value, tables read

vars == <<elf, libelf, files, symtabs, ksymtabs, snap, last>>

-----------------------------------------------------------------------------
(* Machine words *)

AddrBits == 7
SizeBits == 5
KADDR_SHIFT == 5
SYMTAB_GROW == 16

AddrMod == 2 ^ AddrBits
SizeMod == 2 ^ SizeBits

\* unsigned long arithmetic
AddrAdd(a, b) == (a + b) % AddrMod
AddrSub(a, b) == (a - b) % AddrMod
\* assignment of an unsigned long to the unsigned sym->size
ToSize(a) == a % SizeMod

NULL == 0

-----------------------------------------------------------------------------
(* Strings: a name is a sequence of characters *)

Alphabet == <<"\t", "(", ")", "@", "1", "S", "Z", "_", "a", "b", "c", "d",
              "e", "f", "g", "h", "m", "n", "s", "y">>

CharCode(c) == CHOOSE i \in 1..Len(Alphabet) : Alphabet[i] = c

\* strcmp: negative, zero or positive
RECURSIVE strcmp(_, _)
strcmp(a, b) ==
    IF a = <<>> /\ b = <<>> THEN 0
    ELSE IF a = <<>> THEN -1
    ELSE IF b = <<>> THEN 1
    ELSE IF Head(a) # Head(b) THEN CharCode(Head(a)) - CharCode(Head(b))
    ELSE strcmp(Tail(a), Tail(b))

Take(s, n) == SubSeq(s, 1, IF n < Len(s) THEN n ELSE Len(s))

\* strncmp(a, b, n) == 0
strnequal(a, b, n) == Take(a, n) = Take(b, n)

\* the part of s before the first occurrence of c (all of s without one)
RECURSIVE Before(_, _)
Before(s, c) ==
    IF s = <<>> \/ Head(s) = c THEN <<>>
    ELSE <<Head(s)>> \o Before(Tail(s), c)

Drop(s, n) == SubSeq(s, n + 1, Len(s))

\* the demangler collaborator: a pure function from a raw name to a display
\* name that leaves a name that is not mangled as it is
demangle(name) ==
    IF Len(name) >= 2 /\ name[1] = "_" /\ name[2] = "Z"
    THEN Drop(name, 2) \o <<"(", ")">>
    ELSE name

-----------------------------------------------------------------------------
(* struct sym, struct symtab *)

ST_LOCAL  == "t"
ST_GLOBAL == "T"
ST_WEAK   == "w"
ST_PLT    == "P"
ST_KERNEL == "K"
ST_UNKNOWN == "ST_UNKNOWN"

\* A table: ->sym[0 .. nr_sym-1] is the sequence sym (nr_sym is its length),
\* ->sym_names[] holds positions of sym (1-based), mem tells whether ->sym
\* points to storage: "null", "heap", or "undefined" once an entry has been
\* written through a null ->sym, after which nothing is known of the process.
EmptyTable ==
    [sym |-> <<>>, nr_alloc |-> 0, mem |-> "null",
     sym_names |-> <<>>, name_sorted |-> FALSE]

nr_sym(tab) == Len(tab.sym)

\* if (nr_sym >= nr_alloc) grow; sym = &tab->sym[nr_sym++]; *sym = s
AppendSym(tab, s) ==
    LET grow == nr_sym(tab) >= tab.nr_alloc
    IN  [tab EXCEPT !.sym = Append(@, s),
                    !.nr_alloc = IF grow THEN @ + SYMTAB_GROW ELSE @,
                    !.mem = IF @ = "undefined" THEN @
                            ELSE IF grow THEN "heap"
                            ELSE IF @ = "null" THEN "undefined" ELSE @]

\* nr_sym = 0, sym = NULL, sym_names = NULL; nr_alloc is left as it is
__unload_symtab(tab) ==
    [tab EXCEPT !.sym = <<>>, !.mem = IF @ = "undefined" THEN @ ELSE "null",
                !.sym_names = <<>>]

\* unload_symtabs(symtabs)
unload_symtabs(st) ==
    [st EXCEPT !.symtab = __unload_symtab(@), !.dsymtab = __unload_symtab(@),
               !.loaded = FALSE]

RemoveAt(s, k) == SubSeq(s, 1, k - 1) \o SubSeq(s, k + 1, Len(s))

-----------------------------------------------------------------------------
(* qsort and bsearch *)

\* addrsort(a, b) <= 0, namesort(a, b) <= 0
SortLeq(by, a, b) ==
    IF by = "addrsort" THEN a.addr <= b.addr
    ELSE strcmp(a.name, b.name) <= 0

\* qsort leaves the order of elements that compare equal unspecified: every
\* ordering of the positions idx of s that respects the comparison is a
\* result
RECURSIVE SortedOrders(_, _, _)
SortedOrders(s, idx, by) ==
    IF idx = {} THEN {<<>>}
    ELSE UNION { { <<i>> \o rest : rest \in SortedOrders(s, idx \ {i}, by) } :
                 i \in { j \in idx : \A k \in idx : SortLeq(by, s[j], s[k]) } }

\* the results of qsort(s, n, size, addrsort)
qsort_addr(s) ==
    { [k \in 1..Len(s) |-> s[ord[k]]] :
      ord \in SortedOrders(s, 1..Len(s), "addrsort") }

\* the results of qsort(sym_names, n, size, namesort), as positions of s
qsort_names(s) == SortedOrders(s, 1..Len(s), "namesort")

\* addrfind(addr, sym)
addrfind(addr, sym) ==
    IF sym.addr <= addr /\ addr < AddrAdd(sym.addr, sym.size) THEN 0
    ELSE IF sym.addr > addr THEN -1
    ELSE 1

\* bsearch(addr, s, n, size, addrfind): a binary search whose probe inside
\* the remaining range [lo, hi] is the library's choice (the middle one in
\* glibc).  The result is a position of s, or NULL.
RECURSIVE bsearch_range(_, _, _, _)
bsearch_range(addr, s, lo, hi) ==
    IF lo > hi THEN {NULL}
    ELSE UNION { LET c == addrfind(addr, s[m])
                 IN  IF c = 0 THEN {m}
                     ELSE IF c < 0 THEN bsearch_range(addr, s, lo, m - 1)
                     ELSE bsearch_range(addr, s, m + 1, hi)
                 : m \in lo..hi }

bsearch(addr, s) == bsearch_range(addr, s, 1, Len(s))

-----------------------------------------------------------------------------
(* The ELF image, as libelf presents it *)

\* An image: vaddr is p_vaddr of the first PT_LOAD program header; syms are
\* the entries of .symtab (of .dynsym when there is no .symtab), each with
\* st_value, st_size, its binding, whether its type is STT_FUNC, and its
\* name; rels are the entries of .rela.plt or .rel.plt, each with the
\* st_value, type and name of the .dynsym entry it refers to; plt_addr and
\* plt_entsize are sh_addr and sh_entsize of .plt (plt_addr = 0: no .plt or
\* no .dynsym); fail tells what libelf cannot read: nothing ("none"), the
\* program headers ("phdr"), the section header string table ("shstr"),
\* entry idx of the symbol table ("sym") or of the relocations ("rel"),
\* counted from 0.
NoFail == [kind |-> "none", idx |-> 0]

\* flags & SYMTAB_FL_ADJ_OFFSET: offset -= phdr.p_vaddr
AdjustOffset(img, offset, flags) ==
    IF "ADJ_OFFSET" \in flags THEN AddrSub(offset, img.vaddr) ELSE offset

\* the error exits taken before the entry loop
HeaderError(img, flags) ==
    \/ "ADJ_OFFSET" \in flags /\ img.fail.kind = "phdr"
    \/ img.fail.kind = "shstr"

\* switch (GELF_ST_BIND(elf_sym.st_info))
BindType(bind) ==
    CASE bind = "STB_LOCAL"  -> ST_LOCAL
      [] bind = "STB_GLOBAL" -> ST_GLOBAL
      [] bind = "STB_WEAK"   -> ST_WEAK
      [] OTHER               -> ST_UNKNOWN

\* the name load_symtab stores: cut at '@', demangled under the flag
SymName(name, flags) ==
    IF "DEMANGLE" \in flags THEN demangle(Before(name, "@"))
    ELSE Before(name, "@")

-----------------------------------------------------------------------------
(* load_symtab *)

\* the entry loop from entry i (counted from 0): the table it leaves and
\* whether it left by elf_error
RECURSIVE SymtabLoop(_, _, _, _, _)
SymtabLoop(tab, img, offset, flags, i) ==
    IF i >= Len(img.syms) THEN [tab |-> tab, err |-> FALSE]
    ELSE IF img.fail.kind = "sym" /\ img.fail.idx = i
         THEN [tab |-> tab, err |-> TRUE]
    ELSE LET e == img.syms[i + 1]
         IN  IF e.st_size = 0 \/ ~e.func
             THEN SymtabLoop(tab, img, offset, flags, i + 1)
             ELSE SymtabLoop(
                    AppendSym(tab, [addr |-> AddrAdd(e.st_value, offset),
                                    size |-> e.st_size,
                                    type |-> BindType(e.bind),
                                    name |-> SymName(e.name, flags)]),
                    img, offset, flags, i + 1)

\* while (curr->addr == next->addr) { memmove; nr_sym--; if (i + 2 >= nr_sym) break; }
RECURSIVE DedupWhile(_, _)
DedupWhile(s, i) ==
    IF s[i + 1].addr = s[i + 2].addr
    THEN LET t == RemoveAt(s, i + 2)
         IN  IF i + 2 >= Len(t) THEN t ELSE DedupWhile(t, i)
    ELSE s

\* for (i = 0; i < symtab->nr_sym - 1; i++)
RECURSIVE DedupFor(_, _)
DedupFor(s, i) ==
    IF i < Len(s) - 1 THEN DedupFor(DedupWhile(s, i), i + 1) ELSE s

\* remove duplicated (overlapped?) symbols
RemoveDuplicates(s) == DedupFor(s, 0)

\* sym_names[i] = &sym[i]; qsort(sym_names, ..., namesort); name_sorted = true
WithNameIndex(tab) ==
    { [tab EXCEPT !.sym_names = ord, !.name_sorted = TRUE] :
      ord \in qsort_names(tab.sym) }

\* load_symtab(symtab, filename, offset, flags): the possible outcomes, each
\* the table left and the value returned
load_symtab(tab, img, offset0, flags) ==
    IF HeaderError(img, flags) THEN {[tab |-> tab, ret |-> -1]}
    ELSE LET offset == AdjustOffset(img, offset0, flags)
             r == SymtabLoop(tab, img, offset, flags, 0)
         IN  IF r.err \/ nr_sym(r.tab) = 0 THEN {[tab |-> r.tab, ret |-> -1]}
             ELSE UNION { { [tab |-> t, ret |-> 0] :
                            t \in WithNameIndex(
                                    [r.tab EXCEPT !.sym = RemoveDuplicates(sorted)]) } :
                          sorted \in qsort_addr(r.tab.sym) }

-----------------------------------------------------------------------------
(* sort_dynsymtab, load_dynsymtab, find_dynsym *)

\* the first k with sym_names[i] == (void *)sym[k].addr
FirstAt(s, addr) == CHOOSE k \in 1..Len(s) :
    /\ s[k].addr = addr
    /\ \A j \in 1..(k - 1) : s[j].addr # addr

\* sort_dynsymtab(dsymtab): save each address in ->sym_names[], sort ->sym by
\* address, replace each saved address by the first entry found at it
sort_dynsymtab(tab) ==
    LET saved == [i \in 1..nr_sym(tab) |-> tab.sym[i].addr]
    IN  { [tab EXCEPT !.sym = sorted,
                      !.sym_names = [i \in 1..nr_sym(tab) |-> FirstAt(sorted, saved[i])],
                      !.name_sorted = FALSE] :
          sorted \in qsort_addr(tab.sym) }

\* sym->addr of relocation idx (counted from 0)
PltAddr(img, e, offset, flags, idx) ==
    LET a0 == IF e.st_value # 0 THEN e.st_value
              ELSE AddrAdd(img.plt_addr, (idx + 1) * img.plt_entsize)
        a1 == IF "ADJ_OFFSET" \in flags THEN AddrAdd(a0, offset) ELSE a0
    IN  IF e.func THEN a1 ELSE 0

\* the name load_dynsymtab stores
DynName(name, flags) ==
    IF "DEMANGLE" \in flags THEN demangle(name) ELSE name

\* the relocation loop from entry idx
RECURSIVE DynsymLoop(_, _, _, _, _)
DynsymLoop(tab, img, offset, flags, idx) ==
    IF idx >= Len(img.rels) THEN [tab |-> tab, err |-> FALSE]
    ELSE IF img.fail.kind = "rel" /\ img.fail.idx = idx
         THEN [tab |-> tab, err |-> TRUE]
    ELSE LET e == img.rels[idx + 1]
         IN  DynsymLoop(
                AppendSym(tab, [addr |-> PltAddr(img, e, offset, flags, idx),
                                size |-> ToSize(img.plt_entsize),
                                type |-> ST_PLT,
                                name |-> DynName(e.name, flags)]),
                img, offset, flags, idx + 1)

\* load_dynsymtab(dsymtab, filename, offset, flags): the possible outcomes
load_dynsymtab(tab, img, offset0, flags) ==
    IF HeaderError(img, flags)
    THEN {[tab |-> __unload_symtab(tab), ret |-> -1]}
    ELSE IF img.plt_addr = 0 THEN {[tab |-> tab, ret |-> 0]}
    ELSE IF img.rel_type = "SHT_NULL" THEN {[tab |-> tab, ret |-> -1]}
    ELSE LET offset == AdjustOffset(img, offset0, flags)
             r == DynsymLoop(tab, img, offset, flags, 0)
         IN  IF r.err THEN {[tab |-> __unload_symtab(r.tab), ret |-> -1]}
             ELSE IF nr_sym(r.tab) = 0 THEN {[tab |-> r.tab, ret |-> -1]}
             ELSE { [tab |-> t, ret |-> 0] : t \in sort_dynsymtab(r.tab) }

\* find_dynsym(symtabs, idx): a position of dsymtab.sym, or NULL
find_dynsym(st, idx) ==
    IF idx >= nr_sym(st.dsymtab) THEN NULL
    ELSE st.dsymtab.sym_names[idx + 1]

-----------------------------------------------------------------------------
(* The symbol file: a sequence of lines *)

\* A line "<addr> <type> <text>\n": addr is what strtoul reads, type the
\* character after the first space, text the rest of the line; ok tells that
\* both separating spaces are there.

\* fprintf(fp, "%016lx %c %s\n", addr, (char) type, name)
FormatLine(addr, type, name) ==
    [addr |-> addr % AddrMod, type |-> type, text |-> name, ok |-> TRUE]

\* char allowed_types[] = "TtwPK"
allowed_types == {"T", "t", "w", "P", "K"}

\* what the reader holds between lines: the two tables, the table stab
\* points to, prev_addr and prev_type
ReaderInit(symtab, dsymtab) ==
    [symtab |-> symtab, dsymtab |-> dsymtab, stab |-> "symtab",
     prev_addr |-> AddrMod - 1, prev_type |-> "X"]

\* for kernel symbols, replace SyS_xxx to sys_xxx
RenameSyS(stored, name) ==
    IF /\ strnequal(stored, <<"S", "y", "S", "_">>, 4)
       /\ strnequal(name, <<"s", "y", "s", "_">>, 4)
       /\ strcmp(Drop(stored, 4), Drop(name, 4)) = 0
    THEN Take(name, 4) \o Drop(stored, 4)
    ELSE stored

\* sym = &stab->sym[stab->nr_sym++]; ...; if (stab->nr_sym > 1) sym[-1].size = ...
StoreSym(tab, addr, type, name) ==
    LET t == AppendSym(tab, [addr |-> addr, size |-> 0, type |-> type,
                             name |-> demangle(name)])
        n == nr_sym(t)
    IN  IF n > 1
        THEN [t EXCEPT !.sym[n - 1].size =
                         ToSize(AddrSub(addr, t.sym[n - 1].addr))]
        ELSE t

\* a duplicate test that looks at the address alone
IsDuplicateByAddr(rd, line) ==
    line.addr = rd.prev_addr

\* the duplicate test of the reader
IsDuplicate(rd, line) ==
    line.addr = rd.prev_addr /\ line.type = rd.prev_type

\* if (type == ST_PLT) stab = &symtabs->dsymtab; else stab = &symtabs->symtab;
RouteSymtabs(type) == IF type = ST_PLT THEN "dsymtab" ELSE "symtab"

\* load_module_symbol stores every line in the one table
RouteModule(type) == "symtab"

\* the table the reader at work stores a line of this type in
Route(reader, type) ==
    IF reader = "load_module_symbol" THEN RouteModule(type) ELSE RouteSymtabs(type)

\* one turn of the getline loop; reader tells which of the two readers runs
ReadLine(rd, line, offset, reader) ==
    IF ~line.ok THEN rd
    ELSE LET name == Before(line.text, "\t")
         IN  IF IsDuplicate(rd, line)
             THEN LET n == nr_sym(rd[rd.stab])
                  IN  [rd EXCEPT ![rd.stab].sym[n].name = RenameSyS(@, name)]
             ELSE IF line.type \notin allowed_types THEN rd
             ELSE LET stab == Route(reader, line.type)
                  IN  [rd EXCEPT !.prev_addr = line.addr,
                                 !.prev_type = line.type,
                                 !.stab = stab,
                                 ![stab] = StoreSym(@, AddrAdd(line.addr, offset),
                                                    line.type, name)]

\* while (getline(&line, &len, fp) > 0) of load_symbol_file
RECURSIVE ReadSymbolLines(_, _, _, _)
ReadSymbolLines(rd, lines, offset, k) ==
    IF k > Len(lines) THEN rd
    ELSE ReadSymbolLines(ReadLine(rd, lines[k], offset, "load_symbol_file"),
                         lines, offset, k + 1)

\* while (getline(&line, &len, fp) > 0) of load_module_symbol
RECURSIVE ReadModuleLines(_, _, _, _)
ReadModuleLines(rd, lines, offset, k) ==
    IF k > Len(lines) THEN rd
    ELSE ReadModuleLines(ReadLine(rd, lines[k], offset, "load_module_symbol"),
                         lines, offset, k + 1)

\* qsort(stab->sym, ..., addrsort) and the name index
SortWithNames(tab) ==
    UNION { WithNameIndex([tab EXCEPT !.sym = sorted]) :
            sorted \in qsort_addr(tab.sym) }

\* load_symbol_file(symtabs, symfile, offset): the possible outcomes, each
\* the two tables left and the value returned
load_symbol_file(st, file, offset) ==
    IF ~file.exists
    THEN {[symtab |-> st.symtab, dsymtab |-> st.dsymtab, ret |-> -1]}
    ELSE LET rd == ReadSymbolLines(ReaderInit(st.symtab, st.dsymtab),
                                   file.lines, offset, 1)
         IN  { [symtab |-> s, dsymtab |-> d, ret |-> 0] :
               s \in SortWithNames(rd.symtab),
               d \in IF nr_sym(rd.dsymtab) = 0 THEN {rd.dsymtab}
                     ELSE sort_dynsymtab(rd.dsymtab) }

\* load_module_symbol(symtab, symfile, offset): the possible outcomes
load_module_symbol(tab, file, offset) ==
    IF ~file.exists THEN {[tab |-> tab, ret |-> -1]}
    ELSE LET rd == ReadModuleLines(ReaderInit(tab, EmptyTable),
                                   file.lines, offset, 1)
         IN  { [tab |-> t, ret |-> 0] : t \in SortWithNames(rd.symtab) }

\* the lines of one table and its closing line
TableLines(tab, order, offset, endname) ==
    LET n == nr_sym(tab)
    IN  [i \in 1..n |-> FormatLine(AddrSub(tab.sym[order[i]].addr, offset),
                                   tab.sym[order[i]].type,
                                   tab.sym[order[i]].name)]
        \o (IF n > 0
            THEN <<FormatLine(
                     AddrSub(AddrAdd(tab.sym[n].addr, tab.sym[n].size), offset),
                     tab.sym[n].type, endname)>>
            ELSE <<>>)

InOrder(tab) == [i \in 1..nr_sym(tab) |-> i]

dynsym_end == <<"_", "_", "d", "y", "n", "s", "y", "m", "_", "e", "n", "d">>
sym_end == <<"_", "_", "s", "y", "m", "_", "e", "n", "d">>

\* the offset save_symbol_file subtracts: p_vaddr of the first PT_LOAD
SaveOffset(img) == IF img.fail.kind = "phdr" THEN 0 ELSE img.vaddr

\* save_symbol_file(symtabs, dirname, exename): the lines written
save_symbol_file(st, img) ==
    TableLines(st.dsymtab, st.dsymtab.sym_names, SaveOffset(img), dynsym_end)
    \o TableLines(st.symtab, InOrder(st.symtab), SaveOffset(img), sym_end)

\* save_module_symbol(stab, symfile, offset): the lines written
save_module_symbol(tab, offset) ==
    TableLines(tab, InOrder(tab), offset, sym_end)

-----------------------------------------------------------------------------
(* struct symtabs, the memory map, the kernel table *)

\* A map entry: libname, start, end and the module's table.  The image and the
\* cache file of a library go by its name.
SymFile(libname) == IF libname = "main" THEN "main.sym" ELSE "lib.sym"
Image(libname) == IF libname = "main" THEN elf ELSE libelf

NewSymtabs(flags, maps) ==
    [symtab |-> EmptyTable, dsymtab |-> EmptyTable, loaded |-> FALSE,
     flags |-> flags, maps |-> maps]

\* find_map_offset(symtabs, filename)
find_map_offset(st, filename) ==
    IF \E i \in 1..Len(st.maps) : st.maps[i].libname = filename
    THEN st.maps[CHOOSE i \in 1..Len(st.maps) :
                   /\ st.maps[i].libname = filename
                   /\ \A j \in 1..(i - 1) : st.maps[j].libname # filename].start
    ELSE 0

\* load_symtabs(symtabs, dirname, filename) when !symtabs->loaded: the
\* possible struct symtabs it leaves
load_symtabs(st, fs, img) ==
    LET offset == IF "ADJ_OFFSET" \in st.flags
                  THEN find_map_offset(st, "main") ELSE 0
        cached == IF "USE_SYMFILE" \in st.flags /\ fs["main.sym"].exists
                  THEN load_symbol_file(st, fs["main.sym"], offset)
                  ELSE {[symtab |-> st.symtab, dsymtab |-> st.dsymtab, ret |-> 0]}
    IN  UNION { UNION { { [st EXCEPT !.symtab = s.tab, !.dsymtab = d.tab,
                                     !.loaded = TRUE] :
                          d \in IF nr_sym(c.dsymtab) = 0
                                THEN load_dynsymtab(c.dsymtab, img, offset, st.flags)
                                ELSE {[tab |-> c.dsymtab, ret |-> 0]} } :
                        s \in IF nr_sym(c.symtab) = 0
                              THEN load_symtab(c.symtab, img, offset, st.flags)
                              ELSE {[tab |-> c.symtab, ret |-> 0]} } :
                c \in cached }

\* the kernel-address predicate: a range test against the kernel boundary
is_kernel_address(addr) == addr >= 2 ^ KADDR_SHIFT

\* get_real_address(addr): addr | (-1UL << KADDR_SHIFT)
get_real_address(addr) ==
    IF is_kernel_address(addr)
    THEN (addr % (2 ^ KADDR_SHIFT)) + (AddrMod - 2 ^ KADDR_SHIFT)
    ELSE addr

\* load_kernel_symbol() when !ksymtabs.loaded: the possible outcomes
load_kernel_symbol(kst, fs) ==
    { IF r.ret < 0 THEN [kst |-> kst, ret |-> -1]
      ELSE [kst |-> [kst EXCEPT
                       !.symtab = [r.symtab EXCEPT !.sym =
                           [i \in 1..nr_sym(r.symtab) |->
                               [r.symtab.sym[i] EXCEPT !.type = ST_KERNEL]]],
                       !.dsymtab = r.dsymtab,
                       !.loaded = TRUE],
            ret |-> 0] :
      r \in load_symbol_file(kst, fs["kallsyms"], 0) }

-----------------------------------------------------------------------------
(* find_symtabs *)

NoSym == [addr |-> 0, size |-> 0, type |-> "", name |-> <<>>]
NotFound == [found |-> FALSE, table |-> "none", sym |-> NoSym]
Found(table, tab, k) ==
    IF k = NULL THEN NotFound
    ELSE [found |-> TRUE, table |-> table, sym |-> tab.sym[k]]

\* the first map with maps->start <= addr && addr < maps->end, or NULL
MapOf(st, addr) ==
    IF \E i \in 1..Len(st.maps) : st.maps[i].start <= addr /\ addr < st.maps[i].end
    THEN CHOOSE i \in 1..Len(st.maps) :
           /\ st.maps[i].start <= addr /\ addr < st.maps[i].end
           /\ \A j \in 1..(i - 1) : ~(st.maps[j].start <= addr /\ addr < st.maps[j].end)
    ELSE NULL

\* if (maps->symtab.nr_sym == 0) { ... }: the possible tables of the module
\* afterwards, each with the loads that were tried
Populate(st, fs, m) ==
    LET mp == st.maps[m]
        fromelf(tab, tried) ==
            { [tab |-> r.tab, tried |-> tried \o <<"elf">>] :
              r \in load_symtab(tab, Image(mp.libname), mp.start, st.flags) }
    IN  IF nr_sym(mp.symtab) # 0 THEN {[tab |-> mp.symtab, tried |-> <<>>]}
        ELSE IF "USE_SYMFILE" \in st.flags
        THEN UNION { IF r.ret = 0 THEN {[tab |-> r.tab, tried |-> <<"symfile">>]}
                     ELSE fromelf(r.tab, <<"symfile">>) :
                     r \in load_module_symbol(
                             mp.symtab, fs[SymFile(mp.libname)],
                             IF "ADJ_OFFSET" \in st.flags THEN mp.start ELSE 0) }
        ELSE fromelf(mp.symtab, <<>>)

\* An outcome of find_symtabs: the memory map left, the symbol returned, the
\* searches made in order (table searched, key, position found), whether the
\* memory map was walked and the loads tried for a module.

\* if (is_kernel_address(addr)) { ... }
FindKernel(st, kst, addr) ==
    IF ~kst.loaded
    THEN {[maps |-> st.maps, ret |-> NotFound, searches |-> <<>>,
           walked |-> FALSE, tried |-> <<>>]}
    ELSE { [maps |-> st.maps, ret |-> Found("kernel", kst.symtab, k),
            searches |-> <<[table |-> "kernel", key |-> get_real_address(addr),
                            pos |-> k]>>,
            walked |-> FALSE, tried |-> <<>>] :
           k \in bsearch(get_real_address(addr), kst.symtab.sym) }

\* the walk of symtabs->maps after both tables of the executable missed
FindInMaps(st, fs, addr, before) ==
    LET m == MapOf(st, addr)
    IN  IF m = NULL
        THEN {[maps |-> st.maps, ret |-> NotFound, searches |-> before,
               walked |-> TRUE, tried |-> <<>>]}
        ELSE UNION {
               { [maps |-> [st.maps EXCEPT ![m].symtab = p.tab],
                  ret |-> Found(st.maps[m].libname, p.tab, k3),
                  searches |-> before \o <<[table |-> st.maps[m].libname,
                                            key |-> addr, pos |-> k3]>>,
                  walked |-> TRUE, tried |-> p.tried] :
                 k3 \in bsearch(addr, p.tab.sym) } :
               p \in Populate(st, fs, m) }

\* the symbol table, then the dynamic symbols, then the memory map
FindUser(st, fs, addr) ==
    UNION {
      LET s1 == <<[table |-> "symtab", key |-> addr, pos |-> k1]>>
      IN  IF k1 # NULL
          THEN {[maps |-> st.maps, ret |-> Found("symtab", st.symtab, k1),
                 searches |-> s1, walked |-> FALSE, tried |-> <<>>]}
          ELSE UNION {
            LET s2 == s1 \o <<[table |-> "dsymtab", key |-> addr, pos |-> k2]>>
            IN  IF k2 # NULL
                THEN {[maps |-> st.maps, ret |-> Found("dsymtab", st.dsymtab, k2),
                       searches |-> s2, walked |-> FALSE, tried |-> <<>>]}
                ELSE FindInMaps(st, fs, addr, s2) :
            k2 \in bsearch(addr, st.dsymtab.sym) } :
      k1 \in bsearch(addr, st.symtab.sym) }

\* a lookup that goes on to the tables of the process when the kernel
\* table was never loaded
find_symtabs_fallthrough(st, kst, fs, addr) ==
    IF is_kernel_address(addr) /\ kst.loaded THEN FindKernel(st, kst, addr)
    ELSE FindUser(st, fs, addr)

\* find_symtabs(symtabs, addr): the possible outcomes
find_symtabs(st, kst, fs, addr) ==
    IF is_kernel_address(addr) THEN FindKernel(st, kst, addr)
    ELSE FindUser(st, fs, addr)

-----------------------------------------------------------------------------
(* Bounds and inputs *)

MaxSyms == 3
MaxRels == 3
MaxResolveSyms == 2
MaxLines == 3

SeqsUpTo(S, n) == UNION { [1..k -> S] : k \in 0..n }

AllFlags == {"ADJ_OFFSET", "USE_SYMFILE", "DEMANGLE"}

NoFile == [exists |-> FALSE, lines |-> <<>>]
File(lines) == [exists |-> TRUE, lines |-> lines]

NoFind == [maps |-> <<>>, ret |-> NotFound, searches |-> <<>>,
           walked |-> FALSE, tried |-> <<>>]
Call(op, arg, ret) == [op |-> op, arg |-> arg, ret |-> ret, find |-> NoFind]

NoSnap == [saved |-> FALSE, loaded |-> FALSE, symtab |-> EmptyTable,
           dsymtab |-> EmptyTable, offset |-> 0]

EmptyImage ==
    [vaddr |-> 0, syms |-> <<>>, rels |-> <<>>, plt_addr |-> 0,
     plt_entsize |-> 0, rel_type |-> "SHT_NULL", fail |-> NoFail]

SymEntry(v, sz, bind, func, name) ==
    [st_value |-> v, st_size |-> sz, bind |-> bind, func |-> func, name |-> name]
RelEntry(v, func, name) == [st_value |-> v, func |-> func, name |-> name]

-----------------------------------------------------------------------------
(* The loaders on one image: load_symtab, load_dynsymtab, find_dynsym *)

LoaderSyms ==
    { SymEntry(v, sz, "STB_GLOBAL", TRUE, <<"f">>) : v \in {8, 10, 12}, sz \in {0, 2, 4} }
    \cup { SymEntry(8, 2, "STB_WEAK", TRUE, <<"f", "@", "1">>),
           SymEntry(10, 2, "STB_LOCAL", FALSE, <<"d">>) }

LoaderRels ==
    { RelEntry(0, TRUE, <<"a">>), RelEntry(0, TRUE, <<"b">>),
      RelEntry(0, FALSE, <<"c">>), RelEntry(0, FALSE, <<"d">>),
      RelEntry(14, TRUE, <<"e">>) }

LoaderFails ==
    {NoFail, [kind |-> "phdr", idx |-> 0], [kind |-> "shstr", idx |-> 0]}
    \cup { [kind |-> k, idx |-> i] : k \in {"sym", "rel"}, i \in 0..1 }

\* an image with a symbol table and no PLT, or with a PLT and no symbols
LoaderImages ==
    { [EmptyImage EXCEPT !.vaddr = 4, !.syms = ss, !.fail = f] :
      ss \in SeqsUpTo(LoaderSyms, MaxSyms),
      f \in { x \in LoaderFails : x.kind # "rel" } }
    \cup
    { [EmptyImage EXCEPT !.vaddr = 4, !.rels = rs, !.fail = f, !.plt_addr = 16,
                         !.plt_entsize = 2, !.rel_type = "SHT_RELA"] :
      rs \in SeqsUpTo(LoaderRels, MaxRels),
      f \in { x \in LoaderFails : x.kind # "sym" } }

MainMap == [libname |-> "main", start |-> 4, end |-> 16, symtab |-> EmptyTable]

InitLoaders ==
    /\ elf \in LoaderImages
    /\ libelf = EmptyImage
    /\ files = [n \in {"main.sym", "lib.sym", "kallsyms"} |-> NoFile]
    /\ symtabs \in { NewSymtabs(f, <<MainMap>>) : f \in {{}, {"ADJ_OFFSET"}} }
    /\ ksymtabs = NewSymtabs({}, <<>>)
    /\ snap = NoSnap
    /\ last = Call("start", 0, 0)

\* the offset load_symtabs hands to the loaders
LoadOffset(st) ==
    IF "ADJ_OFFSET" \in st.flags THEN find_map_offset(st, "main") ELSE 0

\* load_symtab(&symtabs->symtab, filename, offset, symtabs->flags)
LoadSymtab ==
    /\ last.op = "start"
    /\ \E r \in load_symtab(symtabs.symtab, elf, LoadOffset(symtabs), symtabs.flags) :
         /\ symtabs' = [symtabs EXCEPT !.symtab = r.tab]
         /\ last' = Call("load_symtab", 0, r.ret)
    /\ UNCHANGED <<elf, libelf, files, ksymtabs, snap>>

\* load_dynsymtab(&symtabs->dsymtab, filename, offset, symtabs->flags)
LoadDynsymtab ==
    /\ last.op = "load_symtab"
    /\ \E r \in load_dynsymtab(symtabs.dsymtab, elf, LoadOffset(symtabs), symtabs.flags) :
         /\ symtabs' = [symtabs EXCEPT !.dsymtab = r.tab, !.loaded = TRUE]
         /\ last' = Call("load_dynsymtab", 0, r.ret)
    /\ UNCHANGED <<elf, libelf, files, ksymtabs, snap>>

\* find_dynsym(symtabs, idx)
FindDynsym ==
    /\ symtabs.loaded
    /\ \E idx \in 0..(MaxRels + 1) :
         last' = [Call("find_dynsym", idx, 0) EXCEPT
                    !.find.ret = Found("dsymtab", symtabs.dsymtab,
                                       find_dynsym(symtabs, idx))]
    /\ UNCHANGED <<elf, libelf, files, symtabs, ksymtabs, snap>>

NextLoaders == LoadSymtab \/ LoadDynsymtab \/ FindDynsym

SpecLoaders == InitLoaders /\ [][NextLoaders]_vars

-----------------------------------------------------------------------------
(* The resolver: load_symtabs, load_kernel_symbol, find_symtabs *)

\* load_symtabs(symtabs, dirname, filename)
LoadSymtabs ==
    /\ ~symtabs.loaded
    /\ symtabs' \in load_symtabs(symtabs, files, elf)
    /\ last' = Call("load_symtabs", 0, 0)
    /\ UNCHANGED <<elf, libelf, files, ksymtabs, snap>>

\* load_kernel_symbol()
LoadKernelSymbol ==
    /\ ~ksymtabs.loaded
    /\ \E r \in load_kernel_symbol(ksymtabs, files) :
         /\ ksymtabs' = r.kst
         /\ last' = Call("load_kernel_symbol", 0, r.ret)
    /\ UNCHANGED <<elf, libelf, files, symtabs, snap>>

LookupAddrs == {8, 13, 18, 26, 36, 98}

\* find_symtabs(symtabs, addr)
FindSymtabs ==
    /\ \E addr \in LookupAddrs :
         \E r \in find_symtabs(symtabs, ksymtabs, files, addr) :
           /\ symtabs' = [symtabs EXCEPT !.maps = r.maps]
           /\ last' = [Call("find_symtabs", addr, 0) EXCEPT !.find = r]
    /\ UNCHANGED <<elf, libelf, files, ksymtabs, snap>>

ResolveSyms ==
    { SymEntry(8, 6, "STB_GLOBAL", TRUE, <<"f">>),
      SymEntry(10, 2, "STB_LOCAL", TRUE, <<"g">>),
      SymEntry(8, 2, "STB_WEAK", TRUE, <<"h">>) }

ResolveImages ==
    { [EmptyImage EXCEPT !.vaddr = 4, !.syms = ss,
                         !.rels = <<RelEntry(0, TRUE, <<"a">>)>>,
                         !.plt_addr = 16, !.plt_entsize = 2,
                         !.rel_type = "SHT_RELA"] :
      ss \in SeqsUpTo(ResolveSyms, MaxResolveSyms) }

LibImage ==
    [EmptyImage EXCEPT !.syms = <<SymEntry(2, 2, "STB_GLOBAL", TRUE, <<"m">>)>>]

ExeMap == [libname |-> "main", start |-> 4, end |-> 24, symtab |-> EmptyTable]
LibMap == [libname |-> "lib", start |-> 24, end |-> 32, symtab |-> EmptyTable]

LibSymFile ==
    File(<<FormatLine(2, ST_GLOBAL, <<"m">>), FormatLine(4, ST_GLOBAL, sym_end)>>)

Kallsyms ==
    File(<<FormatLine(100, "T", <<"S", "y", "S", "_", "a">>),
           FormatLine(100, "T", <<"s", "y", "s", "_", "a">>),
           FormatLine(102, "d", <<"d">>),
           FormatLine(104, "t", <<"b">>),
           FormatLine(108, "T", <<"_", "e">>)>>)

InitResolve ==
    /\ elf \in ResolveImages
    /\ libelf = LibImage
    /\ \E k \in {NoFile, Kallsyms}, l \in {NoFile, LibSymFile} :
         files = [n \in {"main.sym", "lib.sym", "kallsyms"} |->
                    IF n = "kallsyms" THEN k ELSE IF n = "lib.sym" THEN l ELSE NoFile]
    /\ symtabs \in { NewSymtabs(f, <<ExeMap, LibMap>>) :
                     f \in {{}, {"USE_SYMFILE"}, {"USE_SYMFILE", "ADJ_OFFSET"}} }
    /\ ksymtabs = NewSymtabs({}, <<>>)
    /\ snap = NoSnap
    /\ last = Call("start", 0, 0)

NextResolve == LoadSymtabs \/ LoadKernelSymbol \/ FindSymtabs

SpecResolve == InitResolve /\ [][NextResolve]_vars

-----------------------------------------------------------------------------
(* The symbol file across processes: load, save, a new process, load *)

FlagChoices ==
    {{}, {"USE_SYMFILE"}, {"USE_SYMFILE", "ADJ_OFFSET"},
     {"USE_SYMFILE", "ADJ_OFFSET", "DEMANGLE"}}

\* save_symbol_file(symtabs, dirname, exename); fopen(symfile, "wx") makes it
\* a no-op when the file is there
SaveSymbolFile ==
    /\ ~files["main.sym"].exists
    /\ files' = [files EXCEPT !["main.sym"] = File(save_symbol_file(symtabs, elf))]
    /\ symtabs' = [symtabs EXCEPT !.flags = @ \cup {"ADJ_OFFSET"}]
    /\ snap' = [saved |-> TRUE, loaded |-> symtabs.loaded,
                symtab |-> symtabs.symtab, dsymtab |-> symtabs.dsymtab,
                offset |-> SaveOffset(elf)]
    /\ last' = Call("save_symbol_file", 0, 0)
    /\ UNCHANGED <<elf, libelf, ksymtabs>>

\* another run of the tracer on the same directory: every struct symtabs
\* starts zeroed, the files stay
NewProcess ==
    /\ \E f \in FlagChoices :
         symtabs' = NewSymtabs(f, [i \in 1..Len(symtabs.maps) |->
                                     [symtabs.maps[i] EXCEPT !.symtab = EmptyTable]])
    /\ ksymtabs' = NewSymtabs({}, <<>>)
    /\ last' = Call("exec", 0, 0)
    /\ UNCHANGED <<elf, libelf, files, snap>>

RoundSyms ==
    { SymEntry(8, 2, "STB_GLOBAL", TRUE, <<"f">>),
      SymEntry(10, 2, "STB_LOCAL", TRUE, <<"g">>),
      SymEntry(10, 4, "STB_WEAK", TRUE, <<"_", "Z", "h">>) }

RoundRels ==
    { RelEntry(0, TRUE, <<"a">>), RelEntry(0, FALSE, <<"b">>),
      RelEntry(0, FALSE, <<"d">>), RelEntry(14, TRUE, <<"c">>) }

RoundImages ==
    { [EmptyImage EXCEPT !.vaddr = 4, !.syms = ss, !.rels = rs,
                         !.plt_addr = 16, !.plt_entsize = 2,
                         !.rel_type = "SHT_RELA"] :
      ss \in SeqsUpTo(RoundSyms, MaxSyms), rs \in SeqsUpTo(RoundRels, MaxRels) }

Init ==
    /\ elf \in RoundImages
    /\ libelf = LibImage
    /\ files = [n \in {"main.sym", "lib.sym", "kallsyms"} |-> NoFile]
    /\ symtabs \in { NewSymtabs(f, <<ExeMap>>) : f \in FlagChoices }
    /\ ksymtabs = NewSymtabs({}, <<>>)
    /\ snap = NoSnap
    /\ last = Call("start", 0, 0)

Next == LoadSymtabs \/ SaveSymbolFile \/ NewProcess

Spec == Init /\ [][Next]_vars

-----------------------------------------------------------------------------
(* The readers of symbol files on files of any content *)

CacheLines ==
    { FormatLine(8, "T", <<"S", "y", "S", "_", "a">>),
      FormatLine(8, "T", <<"s", "y", "s", "_", "a">>),
      FormatLine(8, "T", <<"s", "y", "s", "_", "b">>),
      FormatLine(8, "t", <<"s", "y", "s", "_", "a">>),
      FormatLine(8, "P", <<"s", "y", "s", "_", "a">>),
      FormatLine(8, "d", <<"x">>),
      FormatLine(10, "T", <<"s", "y", "s", "_", "a", "\t", "[", "m", "]">>),
      [FormatLine(8, "T", <<"x">>) EXCEPT !.ok = FALSE] }

ReadOffsets == {0, 4}

InitReader ==
    /\ elf = EmptyImage
    /\ libelf = EmptyImage
    /\ \E lines \in SeqsUpTo(CacheLines, MaxLines) :
         files = [n \in {"main.sym", "lib.sym", "kallsyms"} |->
                    IF n = "kallsyms" THEN NoFile ELSE File(lines)]
    /\ symtabs = NewSymtabs({"USE_SYMFILE"}, <<LibMap>>)
    /\ ksymtabs = NewSymtabs({}, <<>>)
    /\ snap = NoSnap
    /\ last = Call("start", 0, 0)

\* load_symbol_file(symtabs, symfile, offset) on the tables of a new process
LoadSymbolFile ==
    /\ last.op = "start"
    /\ \E offset \in ReadOffsets :
       \E r \in load_symbol_file(symtabs, files["main.sym"], offset) :
         /\ symtabs' = [symtabs EXCEPT !.symtab = r.symtab, !.dsymtab = r.dsymtab]
         /\ last' = Call("load_symbol_file", offset, r.ret)
    /\ UNCHANGED <<elf, libelf, files, ksymtabs, snap>>

\* load_module_symbol(&maps->symtab, symfile, offset) on the table of a map
LoadModuleSymbol ==
    /\ last.op = "start"
    /\ \E offset \in ReadOffsets :
       \E r \in load_module_symbol(symtabs.maps[1].symtab, files["lib.sym"], offset) :
         /\ symtabs' = [symtabs EXCEPT !.maps[1].symtab = r.tab]
         /\ last' = Call("load_module_symbol", offset, r.ret)
    /\ UNCHANGED <<elf, libelf, files, ksymtabs, snap>>

NextReader == LoadSymbolFile \/ LoadModuleSymbol

SpecReader == InitReader /\ [][NextReader]_vars

-----------------------------------------------------------------------------
(* Loading and unloading the tables of one process, again and again *)

\* a table of the process was written through a null pointer
Undefined(st) == st.symtab.mem = "undefined" \/ st.dsymtab.mem = "undefined"

\* unload_symtabs(symtabs)
UnloadSymtabs ==
    /\ ~Undefined(symtabs)
    /\ symtabs' = unload_symtabs(symtabs)
    /\ last' = Call("unload_symtabs", 0, 0)
    /\ UNCHANGED <<elf, libelf, files, ksymtabs, snap>>

InitCycle ==
    /\ elf \in ResolveImages
    /\ libelf = LibImage
    /\ files = [n \in {"main.sym", "lib.sym", "kallsyms"} |-> NoFile]
    /\ symtabs \in { NewSymtabs(f, <<ExeMap>>) : f \in FlagChoices }
    /\ ksymtabs = NewSymtabs({}, <<>>)
    /\ snap = NoSnap
    /\ last = Call("start", 0, 0)

NextCycle == LoadSymtabs \/ UnloadSymtabs

SpecCycle == InitCycle /\ [][NextCycle]_vars

-----------------------------------------------------------------------------
(* The symbol file of a mapped module across processes *)

\* load_module_symtabs(symtabs, head) for the one module of the list: the
\* body of its loop is the lazy population of find_symtabs
load_module_symtabs(st, fs, m) == Populate(st, fs, m)

\* load_module_symtabs(symtabs, head)
LoadModuleSymtabs ==
    /\ \E p \in load_module_symtabs(symtabs, files, 1) :
         /\ symtabs' = [symtabs EXCEPT !.maps[1].symtab = p.tab]
         /\ last' = [Call("load_module_symtabs", 1, 0) EXCEPT
                       !.find = [NoFind EXCEPT !.tried = p.tried]]
    /\ UNCHANGED <<elf, libelf, files, ksymtabs, snap>>

\* save_module_symtabs(symtabs, modules) for the one module of the list;
\* fopen(symfile, "wx") makes it a no-op when the file is there
SaveModuleSymtabs ==
    /\ ~files["lib.sym"].exists
    /\ files' = [files EXCEPT !["lib.sym"] =
                   File(save_module_symbol(symtabs.maps[1].symtab,
                                           symtabs.maps[1].start))]
    /\ snap' = [saved |-> TRUE, loaded |-> nr_sym(symtabs.maps[1].symtab) > 0,
                symtab |-> symtabs.maps[1].symtab, dsymtab |-> EmptyTable,
                offset |-> symtabs.maps[1].start]
    /\ last' = Call("save_module_symtabs", 1, 0)
    /\ UNCHANGED <<elf, libelf, symtabs, ksymtabs>>

ModuleSyms ==
    { SymEntry(2, 2, "STB_GLOBAL", TRUE, <<"m">>),
      SymEntry(6, 2, "STB_LOCAL", TRUE, <<"n">>),
      SymEntry(4, 2, "STB_WEAK", TRUE, <<"_", "Z", "h">>) }

ModuleImages ==
    { [EmptyImage EXCEPT !.vaddr = v, !.syms = ss] :
      v \in {0, 2}, ss \in SeqsUpTo(ModuleSyms, MaxSyms) }

InitModule ==
    /\ elf = EmptyImage
    /\ libelf \in ModuleImages
    /\ files = [n \in {"main.sym", "lib.sym", "kallsyms"} |-> NoFile]
    /\ symtabs \in { NewSymtabs(f, <<LibMap>>) : f \in FlagChoices }
    /\ ksymtabs = NewSymtabs({}, <<>>)
    /\ snap = NoSnap
    /\ last = Call("start", 0, 0)

NextModule == LoadModuleSymtabs \/ SaveModuleSymtabs \/ NewProcess

SpecModule == InitModule /\ [][NextModule]_vars

-----------------------------------------------------------------------------
(* Saving again the tables that were read from a symbol file *)

HasSentinel(tab) == \E i \in 1..nr_sym(tab) : tab.sym[i].name \in {sym_end, dynsym_end}

\* the tracer is given another, empty directory (dirname of
\* save_symbol_file); once, after the file of the tables of the ELF image
NewDirectory ==
    /\ snap.saved /\ ~HasSentinel(snap.symtab) /\ ~HasSentinel(snap.dsymtab)
    /\ files["main.sym"].exists
    /\ files' = [files EXCEPT !["main.sym"] = NoFile]
    /\ last' = Call("chdir", 0, 0)
    /\ UNCHANGED <<elf, libelf, symtabs, ksymtabs, snap>>

ResaveImages ==
    { [EmptyImage EXCEPT !.vaddr = 4, !.syms = ss, !.rels = rs,
                         !.plt_addr = 16, !.plt_entsize = 2,
                         !.rel_type = "SHT_RELA"] :
      ss \in SeqsUpTo(RoundSyms, MaxResolveSyms),
      rs \in SeqsUpTo(RoundRels, MaxResolveSyms) }

InitResave ==
    /\ elf \in ResaveImages
    /\ libelf = LibImage
    /\ files = [n \in {"main.sym", "lib.sym", "kallsyms"} |-> NoFile]
    /\ symtabs \in { NewSymtabs(f, <<ExeMap>>) : f \in FlagChoices }
    /\ ksymtabs = NewSymtabs({}, <<>>)
    /\ snap = NoSnap
    /\ last = Call("start", 0, 0)

NextResave == LoadSymtabs \/ SaveSymbolFile \/ NewProcess \/ NewDirectory

SpecResave == InitResave /\ [][NextResave]_vars

-----------------------------------------------------------------------------
(* Properties of the loaders *)

\* the entries of the image that load_symtab accepts
Accepted(img) ==
    { i \in 1..Len(img.syms) : img.syms[i].st_size # 0 /\ img.syms[i].func }

\* libelf fails while load_symtab reads the image
StaticParseFails(img, flags) ==
    \/ HeaderError(img, flags)
    \/ img.fail.kind = "sym" /\ img.fail.idx < Len(img.syms)

\* libelf fails while load_dynsymtab reads the image
DynParseFails(img, flags) ==
    \/ HeaderError(img, flags)
    \/ /\ img.fail.kind = "rel" /\ img.fail.idx < Len(img.rels)
       /\ img.plt_addr # 0 /\ img.rel_type # "SHT_NULL"

\* C3: PLT index preservation.  After load_dynsymtab has appended the N
\* relocation entries and sorted the table, find_dynsym(i) returns for every
\* i < N the symbol (name and address) appended for relocation i, and NULL
\* for i >= N.
C3_PltIndexPreserved ==
    (/\ last.op = "find_dynsym"
     /\ ~DynParseFails(elf, symtabs.flags)
     /\ nr_sym(symtabs.dsymtab) = Len(elf.rels))
    => LET i == last.arg
           off == AdjustOffset(elf, LoadOffset(symtabs), symtabs.flags)
       IN  IF i >= Len(elf.rels) THEN ~last.find.ret.found
           ELSE /\ last.find.ret.found
                /\ last.find.ret.sym.name = DynName(elf.rels[i + 1].name, symtabs.flags)
                /\ last.find.ret.sym.addr =
                     PltAddr(elf, elf.rels[i + 1], off, symtabs.flags, i)

\* C5: after a successful load_symtab the table is strictly increasing by
\* address and no two adjacent entries overlap.
C5_StaticSortedDisjoint ==
    (last.op = "load_symtab" /\ last.ret = 0)
    => \A i \in 1..(nr_sym(symtabs.symtab) - 1) :
         /\ symtabs.symtab.sym[i].addr < symtabs.symtab.sym[i + 1].addr
         /\ symtabs.symtab.sym[i].addr + symtabs.symtab.sym[i].size
              <= symtabs.symtab.sym[i + 1].addr

\* C8: when libelf fails during a load, the loader returns -1 and leaves the
\* table empty, the static loader and the PLT loader alike.
C8_FailedLoadLeavesEmpty ==
    /\ (last.op = "load_symtab" /\ StaticParseFails(elf, symtabs.flags))
       => (last.ret = -1 /\ nr_sym(symtabs.symtab) = 0)
    /\ (last.op = "load_dynsymtab" /\ DynParseFails(elf, symtabs.flags))
       => (last.ret = -1 /\ nr_sym(symtabs.dsymtab) = 0)

\* C9: the duplicate removal of load_symtab leaves one entry for each
\* distinct address among the accepted entries.
C9_OneEntryPerAddress ==
    (last.op = "load_symtab" /\ last.ret = 0)
    => nr_sym(symtabs.symtab) =
         Cardinality({ elf.syms[i].st_value : i \in Accepted(elf) })

-----------------------------------------------------------------------------
(* Properties of the resolver *)

Contains(sym, addr) == sym.addr <= addr /\ addr < sym.addr + sym.size
Covers(tab, addr) == \E i \in 1..nr_sym(tab) : Contains(tab.sym[i], addr)

\* the table a search of find_symtabs went through
TableOf(name) ==
    CASE name = "symtab"  -> symtabs.symtab
      [] name = "dsymtab" -> symtabs.dsymtab
      [] name = "kernel"  -> ksymtabs.symtab
      [] OTHER -> symtabs.maps[CHOOSE i \in 1..Len(symtabs.maps) :
                                 symtabs.maps[i].libname = name].symtab

UserLookup == last.op = "find_symtabs" /\ ~is_kernel_address(last.arg)
KernelLookup == last.op = "find_symtabs" /\ is_kernel_address(last.arg)

\* C1: for a non-kernel address, a symbol of the main static table that
\* contains it is returned; otherwise a symbol of the main dynamic table
\* that contains it; the memory map is walked (and a module loaded) only
\* when neither table contains the address.
C1_StaticThenDynamicThenMaps ==
    UserLookup =>
      LET r == last.find
          a == last.arg
      IN  /\ Covers(symtabs.symtab, a)
               => /\ r.ret.found /\ r.ret.table = "symtab"
                  /\ Contains(r.ret.sym, a)
          /\ (~Covers(symtabs.symtab, a) /\ Covers(symtabs.dsymtab, a))
               => /\ r.ret.found /\ r.ret.table = "dsymtab"
                  /\ Contains(r.ret.sym, a)
          /\ (r.walked \/ r.tried # <<>>)
               => (~Covers(symtabs.symtab, a) /\ ~Covers(symtabs.dsymtab, a))

\* C2: every address range search returns an entry that contains the
\* address whenever the table searched has one, and NULL otherwise.
C2_SearchFindsContainingEntry ==
    last.op = "find_symtabs" =>
      \A i \in 1..Len(last.find.searches) :
        LET q == last.find.searches[i]
            tab == TableOf(q.table)
        IN  IF Covers(tab, q.key)
            THEN q.pos # NULL /\ Contains(tab.sym[q.pos], q.key)
            ELSE q.pos = NULL

\* C7: a kernel address is resolved against the kernel table alone (not
\* found when it was never loaded): no user table is searched, the memory
\* map is not walked and no module is loaded; a user address never searches
\* the kernel table.
C7_KernelUserSeparation ==
    /\ KernelLookup =>
         LET r == last.find
         IN  /\ \A i \in 1..Len(r.searches) : r.searches[i].table = "kernel"
             /\ ~r.walked /\ r.tried = <<>>
             /\ r.ret.found => r.ret.table = "kernel"
             /\ ~ksymtabs.loaded => (~r.ret.found /\ r.searches = <<>>)
             /\ ksymtabs.loaded => Len(r.searches) = 1
    /\ UserLookup =>
         /\ \A i \in 1..Len(last.find.searches) :
              last.find.searches[i].table # "kernel"
         /\ last.find.ret.found => last.find.ret.table # "kernel"

\* a kernel address was found in the loaded kernel table
C7_Witness ==
    /\ KernelLookup /\ ksymtabs.loaded /\ symtabs.loaded
    /\ last.find.ret.found /\ last.find.ret.table = "kernel"
    /\ nr_sym(symtabs.symtab) > 0

\* the last call was a lookup that tried to populate the table of a module
Attempted == last.op = "find_symtabs" /\ last.find.tried # <<>>

\* C11: a module has one population attempt at most: once a lookup in the
\* range of a module has tried to populate its table, from the symbol file
\* or from the ELF image, the next lookup in the same module makes no
\* attempt, whatever the first attempt left in the table.
C11_PopulateOnce ==
    [][ (/\ Attempted
         /\ last'.op = "find_symtabs"
         /\ MapOf(symtabs', last'.arg) = MapOf(symtabs, last.arg))
        => last'.find.tried = <<>> ]_vars

-----------------------------------------------------------------------------
(* Properties of the storage of a table *)

Allocated(tab) ==
    /\ nr_sym(tab) <= tab.nr_alloc
    /\ tab.nr_alloc > 0 => tab.mem = "heap"
    /\ tab.mem # "undefined"

\* C12: in every state reached by load_symtabs and unload_symtabs calls
\* each table has nr_sym <= nr_alloc and storage whenever nr_alloc > 0, and
\* no entry is ever written outside allocated storage.
C12_CountWithinAllocation ==
    Allocated(symtabs.symtab) /\ Allocated(symtabs.dsymtab)

-----------------------------------------------------------------------------
(* Properties of the symbol file *)

Triples(tab) ==
    { <<tab.sym[i].addr, tab.sym[i].type, tab.sym[i].name>> : i \in 1..nr_sym(tab) }

IsSentinel(sym) == sym.name \in {sym_end, dynsym_end}

RealTriples(tab) ==
    { <<tab.sym[i].addr, tab.sym[i].type, tab.sym[i].name>> :
      i \in { j \in 1..nr_sym(tab) : ~IsSentinel(tab.sym[j]) } }

\* the tables were loaded in a new process from the file that
\* save_symbol_file wrote from loaded tables
ReadBack ==
    /\ last.op = "load_symtabs"
    /\ snap.saved /\ snap.loaded
    /\ "USE_SYMFILE" \in symtabs.flags

\* C4: the tables read back from the file (same image, same offset) hold
\* the (address, type, name) triples of the tables written, and besides
\* them only the closing entries __sym_end and __dynsym_end.
C4_CacheRoundTrip ==
    (ReadBack /\ LoadOffset(symtabs) = snap.offset)
    => /\ RealTriples(symtabs.symtab) = Triples(snap.symtab)
       /\ RealTriples(symtabs.dsymtab) = Triples(snap.dsymtab)

\* the least address above addr in the table, or 0 without one
NextAddr(tab, addr) ==
    LET above == { tab.sym[i].addr : i \in 1..nr_sym(tab) } \cap (addr + 1)..AddrMod
    IN  IF above = {} THEN 0 ELSE CHOOSE a \in above : \A b \in above : a <= b

SizesByNext(tab) ==
    \A i \in 1..nr_sym(tab) :
      IF IsSentinel(tab.sym[i]) THEN tab.sym[i].size = 0
      ELSE /\ tab.sym[i].size # 0
           /\ tab.sym[i].size = NextAddr(tab, tab.sym[i].addr) - tab.sym[i].addr

\* C10: in the tables read back from a file of save_symbol_file every entry
\* but the closing one has the size next.addr - addr, next being the entry
\* of the same table with the next higher address, and only the closing
\* entry has size 0.
C10_SizeFromNextEntry ==
    ReadBack => SizesByNext(symtabs.symtab) /\ SizesByNext(symtabs.dsymtab)

-----------------------------------------------------------------------------
(* Properties of the readers *)

IsAccepted(line) == line.ok /\ line.type \in allowed_types

AcceptedLines(lines) == SelectSeq(lines, IsAccepted)

SameKey(a, b) == a.addr = b.addr /\ a.type = b.type

\* the accepted lines that open a run of equal (address, type)
RunHeads(acc) ==
    { h \in 1..Len(acc) : h = 1 \/ ~SameKey(acc[h], acc[h - 1]) }

\* the lines of the run after its head h
RunTail(acc, h) ==
    { j \in (h + 1)..Len(acc) : \A k \in (h + 1)..j : SameKey(acc[k], acc[h]) }

LineName(line) == Before(line.text, "\t")

sys_prefix == <<"s", "y", "s", "_">>

SyS_prefix == <<"S", "y", "S", "_">>

\* the name the run of h leaves in the table
RunName(acc, h) ==
    LET stored == demangle(LineName(acc[h]))
    IN  IF /\ Len(stored) >= 4
           /\ Take(stored, 4) = SyS_prefix
           /\ \E j \in RunTail(acc, h) :
                LineName(acc[j]) = sys_prefix \o Drop(stored, 4)
        THEN sys_prefix \o Drop(stored, 4)
        ELSE stored

RunTriple(acc, h, offset) ==
    <<AddrAdd(acc[h].addr, offset), acc[h].type, RunName(acc, h)>>

TripleAt(tab, i) == <<tab.sym[i].addr, tab.sym[i].type, tab.sym[i].name>>

\* tab holds one entry for each run of heads, and nothing else
OnePerRun(tab, acc, heads, offset) ==
    /\ nr_sym(tab) = Cardinality(heads)
    /\ \A h \in heads :
         Cardinality({ i \in 1..nr_sym(tab) : TripleAt(tab, i) = RunTriple(acc, h, offset) })
         = Cardinality({ g \in heads : RunTriple(acc, g, offset) = RunTriple(acc, h, offset) })

MainLines == AcceptedLines(files["main.sym"].lines)

ModuleLines == AcceptedLines(files["lib.sym"].lines)

\* C6: a reader of symbol files stores one symbol for each run of
\* consecutive accepted lines of equal (address, type), with the address and
\* type of the run and the name of its first line; the name SyS_<x> becomes
\* sys_<x> when a later line of the run is named sys_<x>, and no other
\* line of the run changes it.
C6_OneSymbolPerRun ==
    /\ last.op = "load_symbol_file" =>
         /\ OnePerRun(symtabs.symtab, MainLines,
                      { h \in RunHeads(MainLines) : MainLines[h].type # ST_PLT },
                      last.arg)
         /\ OnePerRun(symtabs.dsymtab, MainLines,
                      { h \in RunHeads(MainLines) : MainLines[h].type = ST_PLT },
                      last.arg)
    /\ last.op = "load_module_symbol" =>
         OnePerRun(symtabs.maps[1].symtab, ModuleLines, RunHeads(ModuleLines),
                   last.arg)

\* a file with a run of three lines, SyS_a first and sys_a last, was read
\* into the one entry sys_a
C6_Witness ==
    /\ last.op = "load_symbol_file"
    /\ Len(MainLines) = 3
    /\ RunHeads(MainLines) = {1}
    /\ LineName(MainLines[1]) = SyS_prefix \o <<"a">>
    /\ LineName(MainLines[2]) = sys_prefix \o <<"b">>
    /\ nr_sym(symtabs.symtab) = 1
    /\ symtabs.symtab.sym[1].name = sys_prefix \o <<"a">>


-----------------------------------------------------------------------------
(* Properties of the symbol file of a module *)

Addrs(tab) == { tab.sym[i].addr : i \in 1..nr_sym(tab) }

RealAddrs(tab) ==
    { tab.sym[i].addr : i \in { j \in 1..nr_sym(tab) : ~IsSentinel(tab.sym[j]) } }

\* the table of the module was read from the file that save_module_symtabs
\* wrote from a populated table
ModuleReadBack ==
    /\ last.op = "load_module_symtabs"
    /\ last.find.tried = <<"symfile">>
    /\ snap.saved /\ snap.loaded

\* C13: the table of a module read from the file of save_module_symtabs
\* has the symbol addresses that load_symtab gives for the image of the
\* module at the start address of its map, with the flags of the process.
C13_ModuleCacheAsElf ==
    ModuleReadBack =>
      \A r \in load_symtab(EmptyTable, libelf, symtabs.maps[1].start, symtabs.flags) :
        RealAddrs(symtabs.maps[1].symtab) = Addrs(r.tab)


-----------------------------------------------------------------------------
(* Properties of saving again *)

\* the two tables have the same entries, each as many times
SameEntries(t, u) ==
    /\ nr_sym(t) = nr_sym(u)
    /\ \A i \in 1..nr_sym(t) :
         Cardinality({ j \in 1..nr_sym(t) : TripleAt(t, j) = TripleAt(t, i) })
         = Cardinality({ j \in 1..nr_sym(u) : TripleAt(u, j) = TripleAt(t, i) })

\* the tables were read back from a file that save_symbol_file wrote from
\* tables that had themselves been read from a symbol file
ReadBackAgain ==
    /\ ReadBack
    /\ LoadOffset(symtabs) = snap.offset
    /\ HasSentinel(snap.symtab) \/ HasSentinel(snap.dsymtab)

\* C14: closing entries do not pile up: tables read from a symbol file,
\* saved again and read back have the same (address, type, name) entries
\* and the same counts as before, the closing line written anew being
\* dropped as a duplicate of the closing entry that was stored.
C14_SentinelsDoNotAccumulate ==
    ReadBackAgain =>
      /\ SameEntries(symtabs.symtab, snap.symtab)
      /\ SameEntries(symtabs.dsymtab, snap.dsymtab)

\* both tables went through the second file with their closing entries
C14_Witness ==
    /\ ReadBackAgain
    /\ HasSentinel(snap.symtab) /\ HasSentinel(snap.dsymtab)
    /\ nr_sym(symtabs.symtab) = 3 /\ nr_sym(symtabs.dsymtab) = 3
    /\ SameEntries(symtabs.symtab, snap.symtab)
    /\ SameEntries(symtabs.dsymtab, snap.dsymtab)

=============================================================================
